---------------------------- MODULE Spec2Model ----------------------------
(***************************************************************************)
(* Model of synradUC2000.py: the UC-2000 REMOTE message encoder            *)
(* (Message.message_bytes), the addition-without-carry helper              *)
(* (Message.add_no_carry) and the shot-sequencing script (main).           *)
(*                                                                         *)
(* Three specifications share the module:                                  *)
(*   Spec      - one Message object, message_bytes evaluated on it;        *)
(*   SpecAdder - one call of add_no_carry;                                 *)
(*   SpecMain  - one run of main() against the serial port.                *)
(***************************************************************************)
EXTENDS Integers, Sequences, FiniteSets, TLC

VARIABLES
    command,      \* Message.command
    data,         \* Message.data
    checksum,     \* Message.checksum
    result,       \* outcome of the message_bytes property (NoResult before)
    args,         \* the *args tuple of an add_no_carry call
    final_sum,    \* value returned by add_no_carry (-1 before the call)
    pc,           \* position of main()
    num_shots,    \* module parameter num_shots
    power,        \* module parameter power
    n,            \* loop variable of main()
    written,      \* the messages handed to uc2000.write, in order
    m,            \* the line read back after the status request
    delayed,      \* the values of n at which plt.pause(delay) ran
    shot_pauses   \* how many times plt.pause(shot_time) ran

vars == <<command, data, checksum, result, args, final_sum,
          pc, num_shots, power, n, written, m, delayed, shot_pauses>>

(***************************************************************************)
(* Bounds of the model.                                                    *)
(***************************************************************************)
MaxData == 130      \* int data values 0..MaxData
MaxQuarter == 420   \* float data values 0/4 .. MaxQuarter/4
MaxAddend == 30     \* add_no_carry arguments 0..MaxAddend (plus Extras)
MaxArgs == 2        \* add_no_carry takes 1..MaxArgs arguments
MaxShots == 4       \* num_shots in 0..MaxShots
MaxPower == 12      \* power in 0..MaxPower

(***************************************************************************)
(* Python values.  A value carries its type tag; numbers are held in n     *)
(* (an int or bool as itself, a float as a count of quarters so that the   *)
(* fractions .0 .25 .5 .75 are exact), strings in s.                       *)
(***************************************************************************)
PyInt(i) == [t |-> "int", n |-> i, s |-> ""]
PyBool(b) == [t |-> "bool", n |-> IF b THEN 1 ELSE 0, s |-> ""]
PyFloat(q) == [t |-> "float", n |-> q, s |-> ""]
PyStr(str) == [t |-> "str", n |-> 0, s |-> str]

\* The numeric value of v, in quarters.
Quarters(v) == IF v.t = "float" THEN v.n ELSE 4 * v.n

\* Python's ==/hash on dict keys: numbers compare by value across int, bool
\* and float (True == 1 == 1.0); a string equals only the same string.
PyEq(a, b) ==
    IF a.t = "str" \/ b.t = "str"
    THEN a.t = b.t /\ a.s = b.s
    ELSE Quarters(a) = Quarters(b)

RECURSIVE Pow10(_)
Pow10(p) == IF p = 0 THEN 1 ELSE 10 * Pow10(p - 1)

RECURSIVE NumDigits(_)
NumDigits(i) == IF i < 10 THEN 1 ELSE 1 + NumDigits(i \div 10)

\* len(str(arg)) for a non-negative number: "127" -> 3, "True" -> 4,
\* "False" -> 5, "10.0"/"10.5" -> 4, "10.25" -> 5.
PyStrLen(v) ==
    CASE v.t = "int" -> NumDigits(v.n)
      [] v.t = "bool" -> IF v.n = 1 THEN 4 ELSE 5
      [] v.t = "float" ->
            NumDigits(v.n \div 4) + 1 + (IF v.n % 2 = 0 THEN 1 ELSE 2)
      [] OTHER -> 1

(***************************************************************************)
(* _UC2000_COMMAND_BYTES: family -> set of <<key, command byte>> items.    *)
(***************************************************************************)
_UC2000_COMMAND_BYTES ==
    [pwm_freq |-> { <<PyInt(5), 119>>, <<PyInt(10), 120>>, <<PyInt(20), 122>> },
     gate_logic |-> { <<PyStr("up"), 122>>, <<PyStr("down"), 123>> },
     max_pwm |-> { <<PyInt(95), 124>>, <<PyInt(99), 125>> },
     lase_on_power_up |-> { <<PyBool(TRUE), 48>>, <<PyBool(FALSE), 49>> },
     mode |-> { <<PyStr("manual"), 112>>, <<PyStr("anc"), 113>>,
                <<PyStr("anv"), 114>>, <<PyStr("man_closed"), 115>>,
                <<PyStr("anv_closed"), 116>> },
     lase |-> { <<PyBool(TRUE), 117>>, <<PyBool(FALSE), 118>> }]

Families == DOMAIN _UC2000_COMMAND_BYTES

_start_byte == 91
_status_request_byte == 126
_set_percent_byte == 127

(***************************************************************************)
(* Outcomes of a call: a returned list, or a raised exception.             *)
(***************************************************************************)
NoResult == [ok |-> FALSE, bytes |-> << >>, exc |-> "", msg |-> ""]
Return(bytes) == [ok |-> TRUE, bytes |-> bytes, exc |-> "None", msg |-> ""]
Raise(exc, msg) == [ok |-> FALSE, bytes |-> << >>, exc |-> exc, msg |-> msg]

(***************************************************************************)
(* Message.add_no_carry                                                    *)
(***************************************************************************)
\* arg % 10**pwr // 10**(pwr - 1)
DigitAt(v, pwr) ==
    (Quarters(v) % (4 * Pow10(pwr))) \div (4 * Pow10(pwr - 1))

\* max(num_digits)
RECURSIVE max_digits(_)
max_digits(as) ==
    IF Len(as) = 1 THEN PyStrLen(as[1])
    ELSE LET rest == max_digits(Tail(as))
         IN IF PyStrLen(as[1]) >= rest THEN PyStrLen(as[1]) ELSE rest

\* the inner loop: result_no_carry after the arguments i..Len(as)
RECURSIVE result_no_carry(_, _, _)
result_no_carry(as, pwr, i) ==
    IF i > Len(as) THEN 0
    ELSE (IF PyStrLen(as[i]) >= pwr THEN DigitAt(as[i], pwr) ELSE 0)
         + result_no_carry(as, pwr, i + 1)

\* the outer loop: what is added to final_sum for the powers pwr..top
RECURSIVE SumFrom(_, _, _)
SumFrom(as, pwr, top) ==
    IF pwr > top THEN 0
    ELSE (result_no_carry(as, pwr, 1) % 10) + SumFrom(as, pwr + 1, top)

\* add_no_carry(*as) for numeric arguments
add_no_carry(as) == SumFrom(as, 1, max_digits(as))

\* A string argument makes `arg % 10**pwr` raise TypeError at pwr = 1.
AddNoCarryRaises(as) == \E i \in 1..Len(as) : as[i].t = "str"

(***************************************************************************)
(* Message.message_bytes                                                   *)
(***************************************************************************)
\* variant: the complement without the & 0xff mask
OnesComplementNoMask(x) == -x - 1

\* ~x & 0xff
OnesComplementByte(x) == (-x - 1) % 256

\* the items of the family whose key equals d
Lookup(cmd, d) == { it \in _UC2000_COMMAND_BYTES[cmd] : PyEq(it[1], d) }

\* variant: the checksum appended is the two's complement of the command byte
CatalogBranchTwosComplement(cmd, d, cs) ==
    IF Lookup(cmd, d) = {}
    THEN Raise("KeyError", "")
    ELSE LET command_byte == (CHOOSE it \in Lookup(cmd, d) : TRUE)[2]
             message == <<_start_byte, command_byte>>
         IN Return(IF cs
                   THEN Append(message, (-command_byte) % 256)
                   ELSE message)

\* lines 192-201
CatalogBranch(cmd, d, cs) ==
    IF Lookup(cmd, d) = {}
    THEN Raise("KeyError", "")
    ELSE LET command_byte == (CHOOSE it \in Lookup(cmd, d) : TRUE)[2]
             message == <<_start_byte, command_byte>>
         IN Return(IF cs
                   THEN Append(message, OnesComplementByte(command_byte))
                   ELSE message)

\* strings s for which int(2*s) parses; the value of int(s + s)
DigitStrings == {"5"}
IntOfDoubledString(str) == IF str = "5" THEN 55 ELSE 0

\* int(2*self.data) raises ValueError
IntRaises(d) == d.t = "str" /\ d.s \notin DigitStrings

\* variant: int(self.data), the percentage not doubled
IntOfData(d) ==
    CASE d.t = "str" -> IntOfDoubledString(d.s)
      [] d.t = "float" -> d.n \div 4
      [] OTHER -> d.n

\* int(2*self.data)
IntOfDouble(d) ==
    CASE d.t = "str" -> IntOfDoubledString(d.s)
      [] d.t = "float" -> (2 * d.n) \div 4
      [] OTHER -> 2 * d.n

\* lines 203-218
PercentBranch(d, cs) ==
    IF IntRaises(d)
    THEN Raise("ValueError", "Type of data is invalid. Needs to be float or int.")
    ELSE LET message == <<_start_byte, _set_percent_byte, IntOfDouble(d)>>
         IN IF ~cs THEN Return(message)
            ELSE IF AddNoCarryRaises(<<PyInt(_set_percent_byte), d>>)
            THEN Raise("TypeError", "")
            ELSE Return(Append(message,
                    OnesComplementByte(
                        add_no_carry(<<PyInt(_set_percent_byte), d>>))))

\* variant: the status request sent behind the start byte
StatusBranchWithStart == Return(<<_start_byte, _status_request_byte>>)

\* lines 220-221
StatusBranch == Return(<<_status_request_byte>>)

\* variant: an unknown command falls through as a status request
UnrecognisedAsStatus == Return(<<_status_request_byte>>)

\* lines 223-224
UnrecognisedBranch == Raise("ValueError", "Command is not recognised by UC-2000")

message_bytes(cmd, d, cs) ==
    IF cmd \in Families THEN CatalogBranch(cmd, d, cs)
    ELSE IF cmd = "percent" THEN PercentBranch(d, cs)
    ELSE IF cmd = "status_request" THEN StatusBranch
    ELSE UnrecognisedBranch

(***************************************************************************)
(* Spec: a Message is constructed, then message_bytes is read.             *)
(***************************************************************************)
Commands == Families \cup {"percent", "status_request", "nonexistent", "PERCENT"}

Strings == {"up", "down", "manual", "anc", "anv", "man_closed", "anv_closed",
            "invalid_key", "5"}

DataValues ==
    {PyInt(i) : i \in 0..MaxData} \cup {PyFloat(q) : q \in 0..MaxQuarter}
    \cup {PyBool(b) : b \in BOOLEAN} \cup {PyStr(str) : str \in Strings}

MainIdle ==
    /\ pc = "idle" /\ num_shots = 0 /\ power = PyInt(0) /\ n = 0
    /\ written = << >> /\ m = << >> /\ delayed = {} /\ shot_pauses = 0

AdderIdle == args = << >> /\ final_sum = -1

MessageIdle ==
    /\ command = "" /\ data = PyInt(0) /\ checksum = FALSE /\ result = NoResult

\* Message.__init__
Init ==
    /\ command \in Commands
    /\ data \in DataValues
    /\ checksum \in BOOLEAN
    /\ result = NoResult
    /\ AdderIdle
    /\ MainIdle

\* the message_bytes property, read once
MessageBytes ==
    /\ result = NoResult
    /\ result' = message_bytes(command, data, checksum)
    /\ UNCHANGED <<command, data, checksum, args, final_sum,
                   pc, num_shots, power, n, written, m, delayed, shot_pauses>>

Next == MessageBytes

Spec == Init /\ [][Next]_vars

(***************************************************************************)
(* SpecAdder: one call of add_no_carry on non-negative ints.               *)
(***************************************************************************)
Extras == {99, 127, 905}
Addends == {PyInt(i) : i \in (0..MaxAddend) \cup Extras}

ArgTuples == UNION { [1..k -> Addends] : k \in 1..MaxArgs }

InitAdder ==
    /\ args \in ArgTuples
    /\ final_sum = -1
    /\ MessageIdle
    /\ MainIdle

AddNoCarry ==
    /\ Len(args) > 0
    /\ final_sum = -1
    /\ final_sum' = add_no_carry(args)
    /\ UNCHANGED <<command, data, checksum, result, args,
                   pc, num_shots, power, n, written, m, delayed, shot_pauses>>

NextAdder == AddNoCarry

SpecAdder == InitAdder /\ [][NextAdder]_vars

(***************************************************************************)
(* SpecMain: one run of main().                                            *)
(***************************************************************************)
\* what readline() may give back within the timeout
Replies == { << >>, <<170>>, <<63>> }

InitMain ==
    /\ pc = "status"
    /\ num_shots \in 0..MaxShots
    /\ power \in {PyInt(i) : i \in 0..MaxPower}
    /\ n = 0
    /\ written = << >>
    /\ m = << >>
    /\ delayed = {}
    /\ shot_pauses = 0
    /\ MessageIdle
    /\ AdderIdle

\* uc2000.write(Message(cmd, d, cs).message_bytes), then continue at `to`;
\* an exception raised by message_bytes leaves main().
Write(cmd, d, cs, to) ==
    LET mess == message_bytes(cmd, d, cs)
    IN IF mess.ok
       THEN written' = Append(written, mess.bytes) /\ pc' = to
       ELSE written' = written /\ pc' = "raised"

\* lines 38-39
WriteStatusRequest ==
    /\ pc = "status"
    /\ Write("status_request", PyBool(FALSE), FALSE, "readline")
    /\ UNCHANGED <<command, data, checksum, result, args, final_sum,
                   num_shots, power, n, m, delayed, shot_pauses>>

\* lines 40-41
ReadLine ==
    /\ pc = "readline"
    /\ m' \in Replies
    /\ pc' = "percent"
    /\ UNCHANGED <<command, data, checksum, result, args, final_sum,
                   num_shots, power, n, written, delayed, shot_pauses>>

\* lines 43-47
SetPercent ==
    /\ pc = "percent"
    /\ Write("percent", power, FALSE, "for")
    /\ UNCHANGED <<command, data, checksum, result, args, final_sum,
                   num_shots, power, n, m, delayed, shot_pauses>>

\* line 49, another shot to fire; lines 50-51
ForNext ==
    /\ pc = "for"
    /\ n < num_shots
    /\ delayed' = IF n > 0 THEN delayed \cup {n} ELSE delayed
    /\ pc' = "lase_on"
    /\ UNCHANGED <<command, data, checksum, result, args, final_sum,
                   num_shots, power, n, written, m, shot_pauses>>

\* line 49, range(num_shots) exhausted
ForExit ==
    /\ pc = "for"
    /\ n >= num_shots
    /\ pc' = "done"
    /\ UNCHANGED <<command, data, checksum, result, args, final_sum,
                   num_shots, power, n, written, m, delayed, shot_pauses>>

\* lines 54-55
LaseOn ==
    /\ pc = "lase_on"
    /\ Write("lase", PyBool(TRUE), FALSE, "pause")
    /\ UNCHANGED <<command, data, checksum, result, args, final_sum,
                   num_shots, power, n, m, delayed, shot_pauses>>

\* line 58
PauseShot ==
    /\ pc = "pause"
    /\ shot_pauses' = shot_pauses + 1
    /\ pc' = "lase_off"
    /\ UNCHANGED <<command, data, checksum, result, args, final_sum,
                   num_shots, power, n, written, m, delayed>>

\* variant: the shot ends with a second lase-on message
LaseOffSendsOn ==
    /\ pc = "lase_off"
    /\ Write("lase", PyBool(TRUE), TRUE, "for")
    /\ n' = n + 1
    /\ UNCHANGED <<command, data, checksum, result, args, final_sum,
                   num_shots, power, m, delayed, shot_pauses>>

\* lines 61-62, and the step of the for loop
LaseOff ==
    /\ pc = "lase_off"
    /\ Write("lase", PyBool(FALSE), TRUE, "for")
    /\ n' = n + 1
    /\ UNCHANGED <<command, data, checksum, result, args, final_sum,
                   num_shots, power, m, delayed, shot_pauses>>

NextMain ==
    \/ WriteStatusRequest
    \/ ReadLine
    \/ SetPercent
    \/ ForNext
    \/ ForExit
    \/ LaseOn
    \/ PauseShot
    \/ LaseOff

SpecMain == InitMain /\ [][NextMain]_vars

(***************************************************************************)
(* Properties.                                                             *)
(***************************************************************************)
Done == result # NoResult

\* data is literally one of the keys written in the family's dict
IsKey(cmd, d) == \E it \in _UC2000_COMMAND_BYTES[cmd] : it[1] = d

ByteOf(cmd, d) == (CHOOSE it \in _UC2000_COMMAND_BYTES[cmd] : it[1] = d)[2]

IsPercentage(d) == d.t = "int" /\ d.n \in 0..100

RECURSIVE PlaceSum(_, _, _)
PlaceSum(as, p, i) ==
    IF i > Len(as) THEN 0
    ELSE ((as[i].n \div Pow10(p - 1)) % 10) + PlaceSum(as, p, i + 1)

RECURSIVE CarryLess(_, _, _)
CarryLess(as, p, top) ==
    IF p > top THEN 0
    ELSE (PlaceSum(as, p, 1) % 10) * Pow10(p - 1) + CarryLess(as, p + 1, top)

CarryLessSum(as) == CarryLess(as, 1, max_digits(as))

\* C2: percent with checksum and an integer percentage d in 0..100 gives
\* [0x5B, 0x7F, 2*d, c] with c = (NOT s) & 0xFF, s the carry-less decimal sum
\* of 127 and d (s = 137, c = 118 for d = 10).
C2_PercentChecksum ==
    (Done /\ command = "percent" /\ checksum /\ IsPercentage(data)) =>
        LET s == CarryLessSum(<<PyInt(127), data>>)
        IN result = Return(<<91, 127, 2 * data.n, (-s - 1) % 256>>)

\* C3: add_no_carry is digit-wise decimal addition modulo 10 without carry:
\* the result is the sum over the places p of
\* ((sum of the inputs' p-th digits) mod 10) * 10^(p-1).
C3_DigitwiseSum ==
    final_sum # -1 => final_sum = CarryLessSum(args)

C5_StatusRequest ==
    (Done /\ command = "status_request") => result = Return(<<126>>)

C5_Witness ==
    /\ command = "status_request" /\ checksum /\ data = PyStr("invalid_key")
    /\ result = Return(<<126>>)

\* C6: a command that is no catalog family, not "percent" and not
\* "status_request" fails with the unrecognised-command error for every data
\* and flag, and no byte sequence comes back.
C6_UnrecognisedCommand ==
    (Done /\ command \notin Families \cup {"percent", "status_request"}) =>
        /\ ~result.ok
        /\ result.bytes = << >>
        /\ result.exc = "ValueError"
        /\ result.msg = "Command is not recognised by UC-2000"

C6_Witness ==
    /\ command = "nonexistent" /\ data = PyInt(1) /\ ~checksum
    /\ Done /\ ~result.ok /\ result.exc = "ValueError"

\* The kind of an error: the exception class and its message.
ErrKind(r) == <<r.exc, r.msg>>

\* C7: a catalog family with data that is not one of its keys fails with the
\* invalid-data error, the kind percent raises for unconvertible data and
\* not the unrecognised-command kind, and no byte sequence comes back.
C7_InvalidData ==
    (Done /\ command \in Families /\ Lookup(command, data) = {}) =>
        /\ ~result.ok
        /\ result.bytes = << >>
        /\ ErrKind(result)
             = ErrKind(message_bytes("percent", PyStr("invalid_key"), FALSE))
        /\ ErrKind(result)
             # ErrKind(message_bytes("nonexistent", data, checksum))

LegalRequest ==
    \/ command \in Families /\ IsKey(command, data)
    \/ command = "percent" /\ IsPercentage(data)
    \/ command = "status_request"

ExpectedLen ==
    IF command = "status_request" THEN 1
    ELSE (IF command = "percent" THEN 3 ELSE 2) + (IF checksum THEN 1 ELSE 0)

IsPrefix(s1, s2) == Len(s1) <= Len(s2) /\ SubSeq(s2, 1, Len(s1)) = s1

RECURSIVE Shots(_)
Shots(k) == IF k = 0 THEN << >> ELSE Shots(k - 1) \o << <<91, 117>>, <<91, 118, 137>> >>

ExpectedWrites == << <<126>>, <<91, 127, 2 * power.n>> >> \o Shots(num_shots)

WritesSoFar ==
    CASE pc = "status" -> 0
      [] pc \in {"readline", "percent"} -> 1
      [] pc \in {"for", "lase_on"} -> 2 + 2 * n
      [] pc \in {"pause", "lase_off"} -> 3 + 2 * n
      [] OTHER -> 2 + 2 * num_shots

\* C9: a run of main() writes the status request, then the percent message
\* once, then num_shots times (lase on without checksum, lase off with
\* checksum) and nothing else; the delay is waited before every shot but the
\* first; a complete run has written the whole sequence.
C9_DriverSequence ==
    /\ pc # "raised"
    /\ IsPrefix(written, ExpectedWrites)
    /\ Len(written) = WritesSoFar
    /\ delayed = (IF pc \in {"lase_on", "pause", "lase_off"} THEN 1..n ELSE 1..(n - 1))
    /\ pc = "done" =>
          /\ written = ExpectedWrites
          /\ delayed = 1..(num_shots - 1)
          /\ shot_pauses = num_shots
          /\ num_shots >= 1 => written[Len(written)] = <<91, 118, 137>>

C9_Witness ==
    /\ pc = "done" /\ num_shots = 3 /\ power = PyInt(10)
    /\ Len(written) = 8 /\ delayed = {1, 2}

\* C10: two different (family, key) items of the catalog never encode to the
\* same byte sequence under the same checksum flag.
C10_Unambiguous ==
    (Done /\ command \in Families /\ IsKey(command, data)) =>
        \A f \in Families : \A it \in _UC2000_COMMAND_BYTES[f] :
            <<f, it[1]>> # <<command, data>> =>
                message_bytes(f, it[1], checksum) # result

=============================================================================
